---- MODULE Spec2Model ----
(***************************************************************************)
(* Route extractor (src/index.ts): framework detection, the two Next.js    *)
(* file-path converters, the declaration scan, the orchestrator            *)
(* extractSiteRoutes, and the command-line entry point (src/bin/cli.js).   *)
(*                                                                         *)
(* A string whose characters matter (a file path, a route path) is a       *)
(* sequence of one-character strings; a string that is only compared as a  *)
(* whole (a framework name, a version, a package name) is a TLA+ string.   *)
(* An optional field of a TypeScript object is a record field that is in   *)
(* the record's DOMAIN only when it is set.                                *)
(***************************************************************************)
EXTENDS Naturals, Sequences, FiniteSets, TLC

VARIABLES
    projectPath,   \* the argument of extractSiteRoutes
    fsys,          \* the project on disk, as the probes see it
    pc,            \* position in extractSiteRoutes and its callees
    framework,     \* result.framework
    routes,        \* result.routes (the callee's local `routes` while it runs)
    errors,        \* result.errors
    outcome,       \* "pending" | "returned" | "threw"
    calls,         \* functions entered so far
    detected,      \* what detectFramework returned, <<>> before it has
    root,          \* the convention root extractNextJSRoutes is at, "" outside it
    listed,        \* <<root, file>> of every listed file iterated so far
    seenRoutes,    \* extractReactRouterRoutes' set of route keys
    input,         \* input of the pure-function specifications, argv of the CLI
    output,        \* their result
    logged,        \* the diagnostics written with console.error
    options,       \* the CLI's options object
    exitCode,      \* the exit status of the CLI process
    pending,       \* awaits each promise of a file's parse still has to pass
    settled        \* the promises of a file's parse, in the order they settled

vars == <<projectPath, fsys, pc, framework, routes, errors, outcome, calls,
          detected, root, listed, seenRoutes, input, output,
          logged, options, exitCode, pending, settled>>

-----------------------------------------------------------------------------
(* Bounds *)

\* files the listings of one run return at most, all listings together
MaxFiles == 2
\* directories above a file given to a converter at most
MaxDepth == 2
\* <Route> elements of a generated file at most
MaxRoutes == 2
\* elements of the array literal of a generated createBrowserRouter call at
\* most, the elements of nested `children` arrays included
MaxNodes == 3
\* command-line arguments at most
MaxArgs == 2

-----------------------------------------------------------------------------
(* Strings as character sequences *)

RECURSIVE Flatten(_)
Flatten(ss) == IF ss = <<>> THEN <<>> ELSE Head(ss) \o Flatten(Tail(ss))

StartsWith(s, p) == Len(s) >= Len(p) /\ SubSeq(s, 1, Len(p)) = p

EndsWith(s, p) == Len(s) >= Len(p) /\ SubSeq(s, Len(s) - Len(p) + 1, Len(s)) = p

\* String.prototype.includes
Includes(s, p) == \E i \in 1..(Len(s) - Len(p) + 1) : SubSeq(s, i, i + Len(p) - 1) = p

DropLast(s, n) == SubSeq(s, 1, Len(s) - n)

\* index of the first `c` at or after position `from`, 0 when there is none
FirstIndex(s, c, from) ==
    IF \E i \in from..Len(s) : s[i] = c
    THEN CHOOSE i \in from..Len(s) : s[i] = c /\ \A j \in from..(i - 1) : s[j] # c
    ELSE 0

cTsx == <<".", "t", "s", "x">>
cTs == <<".", "t", "s">>
cJsx == <<".", "j", "s", "x">>
cJs == <<".", "j", "s">>
cPage == <<"p", "a", "g", "e">>
cLayout == <<"l", "a", "y", "o", "u", "t">>
cLoading == <<"l", "o", "a", "d", "i", "n", "g">>
cError == <<"e", "r", "r", "o", "r">>
cNotFound == <<"n", "o", "t", "-", "f", "o", "u", "n", "d">>
cIndex == <<"i", "n", "d", "e", "x">>
cDots == <<".", ".", ".">>
cUsers == <<"u", "s", "e", "r", "s">>
cBlog == <<"b", "l", "o", "g">>
cDashboard == <<"d", "a", "s", "h", "b", "o", "a", "r", "d">>
cId == <<"[", "i", "d", "]">>
cSlug == <<"[", ".", ".", ".", "s", "l", "u", "g", "]">>
cApp == <<"a", "p", "p">>
cNoComponent == <<"n", "o", "-", "c", "o", "m", "p", "o", "n", "e", "n", "t">>
\* messages of the errors the probes throw
cAccessError == <<"E", "I", "N", "V", "A", "L">>
cJsonError == <<"J", "S", "O", "N">>
cPages == <<"p", "a", "g", "e", "s">>

-----------------------------------------------------------------------------
(* The two converters *)

\* filePath.replace(/\.(tsx|ts|jsx|js)$/, "")
StripExtension(s) ==
    IF EndsWith(s, cTsx) THEN DropLast(s, 4)
    ELSE IF EndsWith(s, cTs) THEN DropLast(s, 3)
    ELSE IF EndsWith(s, cJsx) THEN DropLast(s, 4)
    ELSE IF EndsWith(s, cJs) THEN DropLast(s, 3)
    ELSE s

\* route.replace(/\[([^\]]+)\]/g, ":$1"): at each "[" followed by one or
\* more characters other than "]" and then "]", left to right
RECURSIVE ReplaceDynamic(_)
ReplaceDynamic(s) ==
    IF s = <<>> THEN <<>>
    ELSE LET k == FirstIndex(s, "]", 2) IN
         IF Head(s) = "[" /\ k >= 3
         THEN <<":">> \o SubSeq(s, 2, k - 1) \o ReplaceDynamic(SubSeq(s, k + 1, Len(s)))
         ELSE <<Head(s)>> \o ReplaceDynamic(Tail(s))

\* route.replace(/\[\.\.\.([^\]]+)\]/g, "*")
RECURSIVE ReplaceCatchAll(_)
ReplaceCatchAll(s) ==
    IF s = <<>> THEN <<>>
    ELSE LET k == FirstIndex(s, "]", 5) IN
         IF StartsWith(s, <<"[">> \o cDots) /\ k >= 6
         THEN <<"*">> \o ReplaceCatchAll(SubSeq(s, k + 1, Len(s)))
         ELSE <<Head(s)>> \o ReplaceCatchAll(Tail(s))

\* the special files of the App Router, in the order the code tests them
SpecialFiles == <<cPage, cLayout, cLoading, cError, cNotFound>>

\* if (route.endsWith("/page")) route = route.replace(/\/page$/, ""); else if ...
StripSpecialFile(route) ==
    IF \E i \in 1..Len(SpecialFiles) : EndsWith(route, <<"/">> \o SpecialFiles[i])
    THEN LET i == CHOOSE j \in 1..Len(SpecialFiles) :
                      /\ EndsWith(route, <<"/">> \o SpecialFiles[j])
                      /\ \A h \in 1..(j - 1) : ~EndsWith(route, <<"/">> \o SpecialFiles[h])
         IN DropLast(route, Len(SpecialFiles[i]) + 1)
    ELSE route

\* the substitutions of both converters, in the order the code applies them
SubstituteSegments(route) == ReplaceCatchAll(ReplaceDynamic(route))

convertNextJSAppPathToRoute(filePath) ==
    LET stripped == StripSpecialFile(StripExtension(filePath))
        subst == SubstituteSegments(stripped)
        route == IF subst = cIndex THEN <<"/">>
                 ELSE IF StartsWith(subst, <<"/">>) THEN subst
                 ELSE <<"/">> \o subst
    IN IF route = <<>> THEN <<"/">> ELSE route

convertNextJSPagesPathToRoute(filePath) ==
    LET route == StripExtension(filePath)
    IN IF route = cIndex THEN <<"/">>
       ELSE <<"/">> \o SubstituteSegments(route)

\* the RouteInfo pushed for one listed file (the same literal in both loops);
\* rootName is the root directory's name below the project
RouteRecord(routePath, relativePath, rootName) ==
    [path |-> routePath,
     component |-> relativePath,
     resolvedComponentPath |-> rootName \o <<"/">> \o relativePath,
     dynamic |-> Includes(routePath, <<"[">>) \/ Includes(routePath, cDots),
     catchAll |-> Includes(routePath, cDots)]

AppRecord(relativePath) ==
    RouteRecord(convertNextJSAppPathToRoute(relativePath), relativePath, cApp)

PagesRecord(relativePath) ==
    RouteRecord(convertNextJSPagesPathToRoute(relativePath), relativePath, cPages)

-----------------------------------------------------------------------------
(* Framework detection *)

Packages == {"next", "vite", "react-router-dom"}

\* declared version strings; "" is the empty string
Versions == {"", "14.0.0"}

ConfigFiles == {"next.config.js", "next.config.ts", "vite.config.js", "vite.config.ts"}

\* a "dependencies"/"devDependencies" section: package name -> version string
DependencyMaps == UNION {[S -> Versions] : S \in SUBSET Packages}

\* { ...packageJson.dependencies, ...packageJson.devDependencies }
MergeDependencies(deps, devDeps) ==
    [k \in (DOMAIN deps) \cup (DOMAIN devDeps) |->
        IF k \in DOMAIN devDeps THEN devDeps[k] ELSE deps[k]]

\* if (dependencies.next): the JavaScript truthiness of the property, which
\* is undefined when the key is missing and falsy for the empty string
Truthy(dependencies, k) == k \in DOMAIN dependencies /\ dependencies[k] # ""

\* no FrameworkInfo: the manifest branch fell through
NoMatch == [name |-> "none"]

\* the manifest branch, lines 96-115: the FrameworkInfo returned, or NoMatch
\* when no `if` returns
detectFromManifest(dependencies) ==
    IF Truthy(dependencies, "next")
    THEN [name |-> "nextjs", version |-> dependencies["next"]]
    ELSE IF Truthy(dependencies, "vite")
    THEN [name |-> "vite", version |-> dependencies["vite"]]
    ELSE IF Truthy(dependencies, "react-router-dom")
    THEN [name |-> "react-router-dom", version |-> dependencies["react-router-dom"]]
    ELSE NoMatch

\* the configuration-file branch with its two tests exchanged
detectFromConfigFilesViteFirst(configs) ==
    IF "vite.config.js" \in configs \/ "vite.config.ts" \in configs
    THEN [name |-> "vite"]
    ELSE IF "next.config.js" \in configs \/ "next.config.ts" \in configs
    THEN [name |-> "nextjs"]
    ELSE [name |-> "unknown"]

\* the configuration-file branch, lines 118-133
detectFromConfigFiles(configs) ==
    IF "next.config.js" \in configs \/ "next.config.ts" \in configs
    THEN [name |-> "nextjs"]
    ELSE IF "vite.config.js" \in configs \/ "vite.config.ts" \in configs
    THEN [name |-> "vite"]
    ELSE [name |-> "unknown"]

\* detectFramework: [value |-> FrameworkInfo], or [throws |-> message] when
\* fs.readJson rejects (unreadable or malformed package.json)
detectFramework(fs) ==
    IF fs.manifest.status = "corrupt" THEN [throws |-> cJsonError]
    ELSE LET fromManifest ==
                 IF fs.manifest.status = "ok"
                 THEN detectFromManifest(MergeDependencies(fs.manifest.dependencies,
                                                           fs.manifest.devDependencies))
                 ELSE NoMatch
         IN IF fromManifest # NoMatch THEN [value |-> fromManifest]
            ELSE [value |-> detectFromConfigFiles(fs.configs)]

Manifests ==
    {[status |-> "absent"], [status |-> "corrupt"]}
    \cup {[status |-> "ok", dependencies |-> d, devDependencies |-> dd] :
              d \in DependencyMaps, dd \in DependencyMaps}

-----------------------------------------------------------------------------
(* Paths (node's path module, posix) *)

\* s.split("/")
RECURSIVE Split(_)
Split(s) ==
    LET k == FirstIndex(s, "/", 1) IN
    IF k = 0 THEN <<s>>
    ELSE <<SubSeq(s, 1, k - 1)>> \o Split(SubSeq(s, k + 1, Len(s)))

RECURSIVE Join(_)
Join(segs) ==
    IF segs = <<>> THEN <<>>
    ELSE IF Len(segs) = 1 THEN segs[1]
    ELSE segs[1] \o <<"/">> \o Join(Tail(segs))

\* segments of an absolute path after normalisation: "" and "." dropped,
\* ".." removes the segment before it (and nothing at the root)
RECURSIVE NormalizeOnto(_, _)
NormalizeOnto(base, segs) ==
    IF segs = <<>> THEN base
    ELSE LET h == Head(segs) IN
         IF h = <<>> \/ h = <<".">> THEN NormalizeOnto(base, Tail(segs))
         ELSE IF h = <<".", ".">>
         THEN NormalizeOnto(IF base = <<>> THEN <<>> ELSE DropLast(base, 1), Tail(segs))
         ELSE NormalizeOnto(Append(base, h), Tail(segs))

\* path.resolve(from, to), `from` absolute: the segments of the result
Resolve(from, to) ==
    IF StartsWith(to, <<"/">>) THEN NormalizeOnto(<<>>, Split(to))
    ELSE NormalizeOnto(NormalizeOnto(<<>>, Split(from)), Split(to))

\* path.dirname of an absolute file path
Dirname(file) == <<"/">> \o Join(DropLast(NormalizeOnto(<<>>, Split(file)), 1))

RECURSIVE CommonPrefixLen(_, _)
CommonPrefixLen(a, b) ==
    IF a = <<>> \/ b = <<>> \/ Head(a) # Head(b) THEN 0
    ELSE 1 + CommonPrefixLen(Tail(a), Tail(b))

\* path.relative(from, to) on absolute segment lists
Relative(fromSegs, toSegs) ==
    LET n == CommonPrefixLen(fromSegs, toSegs)
    IN Join([i \in 1..(Len(fromSegs) - n) |-> <<".", ".">>]
            \o SubSeq(toSegs, n + 1, Len(toSegs)))

\* path.extname: from the last "." of the last segment, unless that "." starts it
ExtName(p) ==
    LET segs == Split(p)
        base == segs[Len(segs)]
        dots == {i \in 1..Len(base) : base[i] = "."}
        last == CHOOSE i \in dots : \A j \in dots : j <= i
    IN IF dots = {} \/ base = <<".", ".">> THEN <<>>
       ELSE IF last = 1 THEN <<>>
       ELSE SubSeq(base, last, Len(base))

\* getRelativePath(filePath, projectPath), filePath given by its segments
getRelativePath(fileSegs, project) == Relative(NormalizeOnto(<<>>, Split(project)), fileSegs)

\* the absolute path of a project-relative file
Absolute(project, rel) == project \o <<"/">> \o rel

\* fs.pathExists of absolute segments: the files of the project are all there is
PathExists(fs, project, segs) == getRelativePath(segs, project) \in fs.files

ProbedExtensionsJsFirst == <<cJs, cJsx, cTs, cTsx>>

\* const extensions = [".tsx", ".ts", ".jsx", ".js"]
ProbedExtensions == <<cTsx, cTs, cJsx, cJs>>

resolveImportPath(importPath, currentFile, project, fs) ==
    IF StartsWith(importPath, <<".">>)
    THEN LET resolvedPath == Resolve(Dirname(currentFile), importPath)
             withExt(i) == DropLast(resolvedPath, 1)
                           \o <<resolvedPath[Len(resolvedPath)] \o ProbedExtensions[i]>>
             found == {i \in 1..Len(ProbedExtensions) : PathExists(fs, project, withExt(i))}
         IN IF ExtName(importPath) = <<>>
            THEN IF resolvedPath = <<>>
                 THEN getRelativePath(<<cTsx>>, project)
                 ELSE IF found # {}
                 THEN getRelativePath(withExt(CHOOSE i \in found : \A j \in found : i <= j),
                                      project)
                 ELSE getRelativePath(withExt(1), project)
            ELSE getRelativePath(resolvedPath, project)
    ELSE IF StartsWith(importPath, <<"/">>) \/ StartsWith(importPath, <<"s", "r", "c", "/">>)
    THEN getRelativePath(Resolve(project, importPath), project)
    ELSE importPath

-----------------------------------------------------------------------------
(* Declaration-based extraction from one parsed file *)

\* obj[k] = v, adding the property when it is not set yet
With(r, k, v) == [f \in (DOMAIN r) \cup {k} |-> IF f = k THEN v ELSE r[f]]

\* the content tests of lines 302-305 and 341-345
SignalTokens == {"react-router-dom", "BrowserRouter", "Routes"}

HasSignal(file) == file.tokens \cap SignalTokens # {}

\* WithComponent recording the resolved path only
WithComponentResolvedOnly(routeInfo, componentName, file, project, fs) ==
    IF componentName \in DOMAIN file.imports /\ file.imports[componentName] # <<>>
    THEN With(routeInfo, "resolvedComponentPath",
              resolveImportPath(file.imports[componentName],
                                Absolute(project, file.name), project, fs))
    ELSE routeInfo

\* lines 487-500 (and their three copies): the import table is consulted and,
\* for a non-empty specifier, the component is resolved and recorded
WithComponent(routeInfo, componentName, file, project, fs) ==
    IF componentName \in DOMAIN file.imports /\ file.imports[componentName] # <<>>
    THEN LET importPath == file.imports[componentName]
             fullPath == resolveImportPath(importPath, Absolute(project, file.name),
                                           project, fs)
         IN With(With(routeInfo, "importedComponent",
                      [name |-> componentName, path |-> importPath, fullPath |-> fullPath]),
                 "resolvedComponentPath", fullPath)
    ELSE routeInfo

\* path = value; dynamic = value.includes(":"); catchAll = value.includes("*")
WithPath(routeInfo, value) ==
    With(With(With(routeInfo, "path", value),
              "dynamic", Includes(value, <<":">>)),
         "catchAll", Includes(value, <<"*">>))

\* the RouteInfo both extractors start from
NewRouteInfo(file, project) ==
    [path |-> <<"/">>,
     component |-> getRelativePath(NormalizeOnto(<<>>, Split(Absolute(project, file.name))),
                                   project),
     children |-> <<>>]

\* the loop over a <Route> element's attributes, lines 474-529
RECURSIVE JSXAttributes(_, _, _, _, _)
JSXAttributes(routeInfo, attrs, file, project, fs) ==
    IF attrs = <<>> THEN routeInfo
    ELSE LET attr == Head(attrs)
             next == IF attr.name = "path" /\ attr.kind = "string"
                     THEN WithPath(routeInfo, attr.value)
                     ELSE IF attr.name = "component" /\ attr.kind = "identifier"
                     THEN WithComponent(routeInfo, attr.value, file, project, fs)
                     ELSE IF attr.name = "element" /\ attr.kind = "jsx"
                     THEN WithComponent(routeInfo, attr.value, file, project, fs)
                     ELSE routeInfo
         IN JSXAttributes(next, Tail(attrs), file, project, fs)

extractRouteFromJSXElement(node, file, project, fs) ==
    JSXAttributes(NewRouteInfo(file, project), node, file, project, fs)

\* the loop over an object literal's properties, lines 579-644; `children`
\* keeps the object-literal elements only, each interpreted in turn
RECURSIVE ObjectProperties(_, _, _, _, _)
RECURSIVE ObjectElements(_, _, _, _)
ObjectProperties(routeInfo, props, file, project, fs) ==
    IF props = <<>> THEN routeInfo
    ELSE LET prop == Head(props)
             next == IF prop.name = "path" /\ prop.kind = "string"
                     THEN WithPath(routeInfo, prop.value)
                     ELSE IF prop.name = "component" /\ prop.kind = "identifier"
                     THEN WithComponent(routeInfo, prop.value, file, project, fs)
                     ELSE IF prop.name = "element" /\ prop.kind = "jsx"
                     THEN WithComponent(routeInfo, prop.value, file, project, fs)
                     ELSE IF prop.name = "children" /\ prop.kind = "array"
                     THEN With(routeInfo, "children",
                               ObjectElements(prop.value, file, project, fs))
                     ELSE routeInfo
         IN ObjectProperties(next, Tail(props), file, project, fs)

\* ObjectElements with a default record for an element that is no object literal
ObjectElementsWithOthers(elements, file, project, fs) ==
    [i \in 1..Len(elements) |->
        IF elements[i].kind = "object"
        THEN ObjectProperties(NewRouteInfo(file, project), elements[i].value,
                              file, project, fs)
        ELSE NewRouteInfo(file, project)]

\* one RouteInfo per object-literal element of an array literal, in order
ObjectElements(elements, file, project, fs) ==
    IF elements = <<>> THEN <<>>
    ELSE LET element == Head(elements)
             rest == ObjectElements(Tail(elements), file, project, fs)
         IN IF element.kind = "object"
            THEN <<ObjectProperties(NewRouteInfo(file, project), element.value,
                                    file, project, fs)>> \o rest
            ELSE rest

extractRouteFromObjectExpression(node, file, project, fs) ==
    ObjectProperties(NewRouteInfo(file, project), node, file, project, fs)

\* a createBrowserRouter(...) call, given by its first argument
extractRoutesFromCreateBrowserRouter(arg, file, project, fs) ==
    IF arg.kind = "array" THEN ObjectElements(arg.value, file, project, fs) ELSE <<>>

\* lines 380-456: [] when the parse throws; otherwise every <Route> element in
\* document order, then the routes of every createBrowserRouter call
extractReactRouterRoutesFromFile(file, project, fs) ==
    IF ~file.parses THEN <<>>
    ELSE [i \in 1..Len(file.jsx) |-> extractRouteFromJSXElement(file.jsx[i], file, project, fs)]
         \o Flatten([i \in 1..Len(file.calls) |->
                extractRoutesFromCreateBrowserRouter(file.calls[i], file, project, fs)])

-----------------------------------------------------------------------------
(* Inputs: projects on disk *)

cHomeSpec == <<".", "/", "p", "a", "g", "e", "s", "/", "H", "o", "m", "e">>
cDashSpec == <<".", "/", "D", "a", "s", "h", ".", "j", "s", "x">>
cHomeJsx == <<"p", "a", "g", "e", "s", "/", "H", "o", "m", "e", ".", "j", "s", "x">>
cHomeJs == <<"p", "a", "g", "e", "s", "/", "H", "o", "m", "e", ".", "j", "s">>
cProfilePath == <<"/", "p", "/", ":", "u">>
cStar == <<"*">>
cA == <<"/", "a">>
cAB == <<"/", "a", "/", "b">>

StringAttr(n, v) == [name |-> n, kind |-> "string", value |-> v]
IdentAttr(n, v) == [name |-> n, kind |-> "identifier", value |-> v]
JsxAttr(n, v) == [name |-> n, kind |-> "jsx", value |-> v]
ArrayOf(v) == [name |-> "children", kind |-> "array", value |-> v]
ObjectOf(v) == [kind |-> "object", value |-> v]
OtherElement == [kind |-> "other"]

\* <Route path="/" component={Home} />, <Route path="/p/:u" element={<Profile />} />,
\* <Route path="/" component={Dash} />, <Route path="*" />
AppFile ==
    [name |-> <<"A", "p", "p", ".", "j", "s", "x">>, readable |-> TRUE,
     tokens |-> {"react-router-dom", "BrowserRouter"}, parses |-> TRUE,
     imports |-> [Home |-> cHomeSpec, Dash |-> cDashSpec, Route |-> <<"r", "r", "d">>],
     jsx |-> << <<StringAttr("path", <<"/">>), IdentAttr("component", "Home")>>,
                <<StringAttr("path", cProfilePath), JsxAttr("element", "Profile")>>,
                <<StringAttr("path", <<"/">>), IdentAttr("component", "Dash")>>,
                <<StringAttr("path", cStar)>> >>,
     calls |-> <<>>]

\* createBrowserRouter([{ path: "/a", element: <Home />, children: [{ path: "/a/b" }, null] }, x])
RouterFile ==
    [name |-> <<"s", "r", "c", "/", "r", ".", "t", "s", "x">>, readable |-> TRUE,
     tokens |-> {"react-router-dom"}, parses |-> TRUE,
     imports |-> [Home |-> <<".", ".", "/", "p", "a", "g", "e", "s", "/", "H", "o", "m", "e">>],
     jsx |-> <<>>,
     calls |-> << [kind |-> "array",
                   value |-> <<ObjectOf(<<StringAttr("path", cA), JsxAttr("element", "Home"),
                                          ArrayOf(<<ObjectOf(<<StringAttr("path", cAB)>>),
                                                    OtherElement>>)>>),
                               OtherElement>>] >>]

\* a file with a routing token that the parser rejects
BrokenFile ==
    [name |-> <<"b", ".", "t", "s">>, readable |-> TRUE, tokens |-> {"Routes"},
     parses |-> FALSE, imports |-> <<>>, jsx |-> <<>>, calls |-> <<>>]

\* a file without any routing token
PlainFile ==
    [name |-> <<"u", ".", "t", "s">>, readable |-> TRUE, tokens |-> {},
     parses |-> TRUE, imports |-> <<>>,
     jsx |-> << <<StringAttr("path", cA)>> >>, calls |-> <<>>]

\* a file whose read fails
LockedFile ==
    [name |-> <<"l", ".", "j", "s">>, readable |-> FALSE, tokens |-> {"Routes"},
     parses |-> TRUE, imports |-> <<>>, jsx |-> <<>>, calls |-> <<>>]

\* <Route path="/" />, <Route path="users" />, <Route path="" />, <Route path="/" />
NavFile ==
    [name |-> <<"N", "a", "v", ".", "j", "s", "x">>, readable |-> TRUE,
     tokens |-> {"Routes"}, parses |-> TRUE, imports |-> <<>>,
     jsx |-> << <<StringAttr("path", <<"/">>)>>,
                <<StringAttr("path", cUsers)>>,
                <<StringAttr("path", <<>>)>>,
                <<StringAttr("path", <<"/">>)>> >>,
     calls |-> <<>>]

SourceFiles == {AppFile, RouterFile, NavFile, BrokenFile, PlainFile, LockedFile}

\* files a listing of a convention root returns, relative to the root
ListedPaths ==
    {cPage \o cTsx,
     cIndex \o cTsx,
     cUsers \o <<"/">> \o cId \o cTsx,
     cBlog \o <<"/">> \o cSlug \o cTsx,
     cDashboard \o <<"/">> \o cPage \o cTsx,
     cUsers \o <<"/">> \o cId \o <<"/">> \o cPage \o cTsx}

ProjectPaths == {<<"/", "w">>, <<"/", "s", "/", "p">>}

\* the manifests and configuration files of the orchestrator's projects
OrchManifests ==
    {[status |-> "absent"], [status |-> "corrupt"]}
    \cup {[status |-> "ok", dependencies |-> d, devDependencies |-> <<>>] :
              d \in {<<>>, [next |-> "14.0.0"], [vite |-> "14.0.0"],
                     [x \in {"react-router-dom"} |-> "14.0.0"]}}

OrchConfigs == {{}, {"next.config.js"}, {"vite.config.ts"}}

ExistingFiles == {{}, {cHomeJsx, cHomeJs}}

Projects ==
    {[rootProbe |-> "exists", manifest |-> m, configs |-> c, appDir |-> a,
      pagesDir |-> p, files |-> f] :
         m \in OrchManifests, c \in OrchConfigs, a \in BOOLEAN, p \in BOOLEAN,
         f \in ExistingFiles}
    \cup {[rootProbe |-> r, manifest |-> [status |-> "absent"], configs |-> {},
           appDir |-> FALSE, pagesDir |-> FALSE, files |-> {}] : r \in {"missing", "throws"}}

-----------------------------------------------------------------------------
(* extractSiteRoutes *)

\* `Project path does not exist: ${projectPath}`
PathMissingError(project) == <<"Project path does not exist: ", project>>

UnknownFrameworkError == <<"Unsupported or unknown framework">>

\* `Error during extraction: ${error.message}`
ExtractionError(message) == <<"Error during extraction: ", message>>

NotDetected == [pending |-> TRUE]

\* src/bin/cli.js lines 167-172
DefaultOptions == [json |-> FALSE, pretty |-> TRUE, help |-> FALSE, version |-> FALSE]

InitRun ==
    /\ framework = [name |-> "unknown"]
    /\ routes = <<>>
    /\ errors = <<>>
    /\ outcome = "pending"
    /\ calls = {}
    /\ detected = NotDetected
    /\ root = ""
    /\ listed = <<>>
    /\ seenRoutes = {}
    /\ logged = {}
    /\ options = DefaultOptions
    /\ exitCode = 0
    /\ pending = <<>>
    /\ settled = <<>>

Init ==
    /\ projectPath \in ProjectPaths
    /\ fsys \in Projects
    /\ pc = "start"
    /\ InitRun
    /\ input = <<>>
    /\ output = <<>>

\* the catch of lines 78-84, then the return of line 86
TopLevelCatch(message) ==
    /\ errors' = Append(errors, ExtractionError(message))
    /\ pc' = "done"
    /\ outcome' = "returned"

\* the positions of a run: in extractSiteRoutes, in extractNextJSRoutes and
\* the two functions it calls, in extractViteRoutes, in extractReactRouterRoutes
Positions == {"start", "detect", "dispatch", "rootCheck", "rootGlob", "rootLoop",
              "viteGlob", "viteLoop", "rrGlob", "rrLoop", "done"}

TryBlockAfterPathCheck == Positions \ {"start", "done"}

\* the positions inside the try of extractSiteRoutes, lines 54-78
TryBlock == Positions \ {"done"}

\* an exception reaching extractSiteRoutes at its position pc: caught when
\* the position is inside the try, and the promise rejects otherwise
Raise(message) ==
    IF pc \in TryBlock
    THEN TopLevelCatch(message)
    ELSE /\ outcome' = "threw"
         /\ pc' = "done"
         /\ UNCHANGED errors

\* CheckPath without the `return result` of line 58
CheckPathNoReturn ==
    /\ pc = "start"
    /\ IF fsys.rootProbe = "throws"
       THEN Raise(cAccessError)
       ELSE IF fsys.rootProbe = "missing"
       THEN /\ errors' = Append(errors, PathMissingError(projectPath))
            /\ pc' = "detect"
            /\ UNCHANGED outcome
       ELSE /\ pc' = "detect"
            /\ UNCHANGED <<errors, outcome>>
    /\ UNCHANGED <<projectPath, fsys, framework, routes, calls, detected, root,
                   listed, seenRoutes, input, output,
                   logged, options, exitCode, pending, settled>>

\* lines 56-59
CheckPath ==
    /\ pc = "start"
    /\ IF fsys.rootProbe = "throws"
       THEN Raise(cAccessError)
       ELSE IF fsys.rootProbe = "missing"
       THEN /\ errors' = Append(errors, PathMissingError(projectPath))
            /\ pc' = "done"
            /\ outcome' = "returned"
       ELSE /\ pc' = "detect"
            /\ UNCHANGED <<errors, outcome>>
    /\ UNCHANGED <<projectPath, fsys, framework, routes, calls, detected, root,
                   listed, seenRoutes, input, output,
                   logged, options, exitCode, pending, settled>>

\* line 62
Detect ==
    /\ pc = "detect"
    /\ calls' = calls \cup {"detectFramework"}
    /\ LET r == detectFramework(fsys) IN
       IF "throws" \in DOMAIN r
       THEN /\ Raise(r.throws)
            /\ UNCHANGED <<framework, detected>>
       ELSE /\ framework' = r.value
            /\ detected' = r.value
            /\ pc' = "dispatch"
            /\ UNCHANGED <<errors, outcome>>
    /\ UNCHANGED <<projectPath, fsys, routes, root, listed, seenRoutes, input, output,
                   logged, options, exitCode, pending, settled>>

RootOrderPagesFirst == <<"pages", "app">>

\* the order in which extractNextJSRoutes visits the two roots, lines 144-152
RootOrder == <<"app", "pages">>

\* the switch with a default case that does nothing
DispatchSilentDefault ==
    /\ pc = "dispatch"
    /\ IF framework.name = "nextjs"
       THEN /\ calls' = calls \cup {"extractNextJSRoutes"}
            /\ root' = RootOrder[1]
            /\ pc' = "rootCheck"
            /\ UNCHANGED <<errors, outcome>>
       ELSE IF framework.name = "vite"
       THEN /\ calls' = calls \cup {"extractViteRoutes"}
            /\ pc' = "viteGlob"
            /\ UNCHANGED <<errors, outcome, root>>
       ELSE IF framework.name = "react-router-dom"
       THEN /\ calls' = calls \cup {"extractReactRouterRoutes"}
            /\ pc' = "rrGlob"
            /\ UNCHANGED <<errors, outcome, root>>
       ELSE /\ pc' = "done"
            /\ outcome' = "returned"
            /\ UNCHANGED <<errors, calls, root>>
    /\ UNCHANGED <<projectPath, fsys, framework, routes, detected, listed, seenRoutes,
                   input, output,
                   logged, options, exitCode, pending, settled>>

\* the switch of lines 65-77
Dispatch ==
    /\ pc = "dispatch"
    /\ IF framework.name = "nextjs"
       THEN /\ calls' = calls \cup {"extractNextJSRoutes"}
            /\ root' = RootOrder[1]
            /\ pc' = "rootCheck"
            /\ UNCHANGED <<errors, outcome>>
       ELSE IF framework.name = "vite"
       THEN /\ calls' = calls \cup {"extractViteRoutes"}
            /\ pc' = "viteGlob"
            /\ UNCHANGED <<errors, outcome, root>>
       ELSE IF framework.name = "react-router-dom"
       THEN /\ calls' = calls \cup {"extractReactRouterRoutes"}
            /\ pc' = "rrGlob"
            /\ UNCHANGED <<errors, outcome, root>>
       ELSE /\ errors' = Append(errors, UnknownFrameworkError)
            /\ pc' = "done"
            /\ outcome' = "returned"
            /\ UNCHANGED <<calls, root>>
    /\ UNCHANGED <<projectPath, fsys, framework, routes, detected, listed, seenRoutes, input, output,
                   logged, options, exitCode, pending, settled>>

\* the diagnostics of lines 187 and 223
RootLog(r) ==
    IF r = "app" THEN "Error extracting Next.js App Router routes:"
    ELSE "Error extracting Next.js Pages Router routes:"

RootExists(r) == IF r = "app" THEN fsys.appDir ELSE fsys.pagesDir

RootRecord(r, relativePath) ==
    IF r = "app" THEN AppRecord(relativePath) ELSE PagesRecord(relativePath)

\* the root after r in extractNextJSRoutes: the next one, or the return
AfterRoot(r) ==
    IF r = RootOrder[1]
    THEN /\ root' = RootOrder[2]
         /\ pc' = "rootCheck"
         /\ UNCHANGED outcome
    ELSE /\ root' = ""
         /\ pc' = "done"
         /\ outcome' = "returned"

\* if (await fs.pathExists(appDir)) / if (await fs.pathExists(pagesDir))
RootCheck ==
    /\ pc = "rootCheck"
    /\ IF RootExists(root)
       THEN /\ pc' = "rootGlob"
            /\ calls' = calls \cup {IF root = "app" THEN "extractNextJSAppRoutes"
                                    ELSE "extractNextJSPagesRoutes"}
            /\ UNCHANGED <<root, outcome>>
       ELSE /\ AfterRoot(root)
            /\ UNCHANGED calls
    /\ UNCHANGED <<projectPath, fsys, framework, routes, errors, detected, listed,
                   seenRoutes, input, output,
                   logged, options, exitCode, pending, settled>>

\* the glob of lines 167 and 203: it lists the root, or throws into the
\* function's own catch, which returns the empty list
RootGlob ==
    /\ pc = "rootGlob"
    /\ \E ok \in BOOLEAN :
          IF ok THEN pc' = "rootLoop" /\ UNCHANGED <<root, outcome, logged>>
          ELSE AfterRoot(root) /\ logged' = logged \cup {RootLog(root)}
    /\ UNCHANGED <<projectPath, fsys, framework, routes, errors, calls, detected,
                   listed, seenRoutes, input, output,
                   options, exitCode, pending, settled>>

\* one iteration of `for (const file of files)`, lines 172-185 and 208-221
RootFile ==
    /\ pc = "rootLoop"
    /\ Len(listed) < MaxFiles
    /\ \E f \in ListedPaths :
          /\ \A i \in 1..Len(listed) : listed[i] # <<root, f>>
          /\ listed' = Append(listed, <<root, f>>)
          /\ routes' = Append(routes, RootRecord(root, f))
    /\ UNCHANGED <<projectPath, fsys, pc, framework, errors, outcome, calls, detected,
                   root, seenRoutes, input, output,
                   logged, options, exitCode, pending, settled>>

\* the listing is exhausted: the function returns its routes
RootDone ==
    /\ pc = "rootLoop"
    /\ AfterRoot(root)
    /\ UNCHANGED <<projectPath, fsys, framework, routes, errors, calls, detected,
                   listed, seenRoutes, input, output,
                   logged, options, exitCode, pending, settled>>

\* the diagnostics of lines 316, 363 and 453
ViteLog == "Error extracting Vite routes:"
ReactRouterLog == "Error extracting React Router routes:"
ParseLog == "Error parsing file"

\* what the parse of a candidate file logs
FileLog(file) == IF ~file.parses THEN {ParseLog} ELSE {}

\* a function of the scan returns its routes to line 70 or 73, then line 86
ScanReturn ==
    /\ pc' = "done"
    /\ outcome' = "returned"

\* the glob of line 292: it lists the project, or throws into the catch of
\* line 315
ViteGlob ==
    /\ pc = "viteGlob"
    /\ \E ok \in BOOLEAN :
          IF ok THEN pc' = "viteLoop" /\ UNCHANGED <<outcome, logged>>
          ELSE ScanReturn /\ logged' = logged \cup {ViteLog}
    /\ UNCHANGED <<projectPath, fsys, framework, routes, errors, calls, detected,
                   root, listed, seenRoutes, input, output,
                   options, exitCode, pending, settled>>

\* one iteration of the loop of lines 298-314; a failed read throws into the
\* catch of line 315 and the function returns what it has
ViteFile ==
    /\ pc = "viteLoop"
    /\ Len(listed) < MaxFiles
    /\ \E file \in SourceFiles :
          /\ \A i \in 1..Len(listed) : listed[i] # <<"", file.name>>
          /\ listed' = Append(listed, <<"", file.name>>)
          /\ IF ~file.readable
             THEN /\ ScanReturn
                  /\ logged' = logged \cup {ViteLog}
                  /\ UNCHANGED routes
             ELSE IF HasSignal(file)
             THEN /\ routes' = routes \o extractReactRouterRoutesFromFile(
                                             file, projectPath, fsys)
                  /\ logged' = logged \cup FileLog(file)
                  /\ UNCHANGED <<pc, outcome>>
             ELSE UNCHANGED <<routes, logged, pc, outcome>>
    /\ UNCHANGED <<projectPath, fsys, framework, errors, calls, detected, root,
                   seenRoutes, input, output,
                   options, exitCode, pending, settled>>

ViteDone ==
    /\ pc = "viteLoop"
    /\ ScanReturn
    /\ UNCHANGED <<projectPath, fsys, framework, routes, errors, calls, detected,
                   root, listed, seenRoutes, input, output,
                   logged, options, exitCode, pending, settled>>

RouteKeyPathOnly(route) == route.path

\* `${route.path}|${route.component || "no-component"}`
RouteKey(route) ==
    route.path \o <<"|">>
    \o (IF "component" \in DOMAIN route /\ route.component # <<>>
        THEN route.component ELSE cNoComponent)

\* lines 353-359: the routes of one file are pushed unless their key was seen;
\* the result is <<routes, seenRoutes>>
RECURSIVE AddUnseen(_, _, _)
AddUnseen(acc, seen, fileRoutes) ==
    IF fileRoutes = <<>> THEN <<acc, seen>>
    ELSE LET route == Head(fileRoutes)
             routeKey == RouteKey(route)
         IN IF routeKey \notin seen
            THEN AddUnseen(Append(acc, route), seen \cup {routeKey}, Tail(fileRoutes))
            ELSE AddUnseen(acc, seen, Tail(fileRoutes))

\* the glob of line 332, or the catch of line 362
ReactRouterGlob ==
    /\ pc = "rrGlob"
    /\ \E ok \in BOOLEAN :
          IF ok THEN pc' = "rrLoop" /\ UNCHANGED <<outcome, logged>>
          ELSE ScanReturn /\ logged' = logged \cup {ReactRouterLog}
    /\ UNCHANGED <<projectPath, fsys, framework, routes, errors, calls, detected,
                   root, listed, seenRoutes, input, output,
                   options, exitCode, pending, settled>>

\* ReactRouterFile reporting a parse failure in result.errors
ReactRouterFileReportsParse ==
    /\ pc = "rrLoop"
    /\ Len(listed) < MaxFiles
    /\ \E file \in SourceFiles :
          /\ \A i \in 1..Len(listed) : listed[i] # <<"", file.name>>
          /\ listed' = Append(listed, <<"", file.name>>)
          /\ IF ~file.readable
             THEN /\ ScanReturn
                  /\ logged' = logged \cup {ReactRouterLog}
                  /\ UNCHANGED <<routes, seenRoutes, errors>>
             ELSE IF HasSignal(file)
             THEN /\ LET added == AddUnseen(routes, seenRoutes,
                                       extractReactRouterRoutesFromFile(
                                           file, projectPath, fsys))
                     IN routes' = added[1] /\ seenRoutes' = added[2]
                  /\ logged' = logged \cup FileLog(file)
                  /\ errors' = IF file.parses THEN errors
                               ELSE Append(errors, ExtractionError(<<ParseLog>>))
                  /\ UNCHANGED <<pc, outcome>>
             ELSE UNCHANGED <<routes, seenRoutes, logged, pc, outcome, errors>>
    /\ UNCHANGED <<projectPath, fsys, framework, calls, detected, root,
                   input, output, options, exitCode, pending, settled>>

\* one iteration of the loop of lines 338-361
ReactRouterFile ==
    /\ pc = "rrLoop"
    /\ Len(listed) < MaxFiles
    /\ \E file \in SourceFiles :
          /\ \A i \in 1..Len(listed) : listed[i] # <<"", file.name>>
          /\ listed' = Append(listed, <<"", file.name>>)
          /\ IF ~file.readable
             THEN /\ ScanReturn
                  /\ logged' = logged \cup {ReactRouterLog}
                  /\ UNCHANGED <<routes, seenRoutes>>
             ELSE IF HasSignal(file)
             THEN /\ LET added == AddUnseen(routes, seenRoutes,
                                       extractReactRouterRoutesFromFile(
                                           file, projectPath, fsys))
                     IN routes' = added[1] /\ seenRoutes' = added[2]
                  /\ logged' = logged \cup FileLog(file)
                  /\ UNCHANGED <<pc, outcome>>
             ELSE UNCHANGED <<routes, seenRoutes, logged, pc, outcome>>
    /\ UNCHANGED <<projectPath, fsys, framework, errors, calls, detected, root,
                   input, output,
                   options, exitCode, pending, settled>>

ReactRouterDone ==
    /\ pc = "rrLoop"
    /\ ScanReturn
    /\ UNCHANGED <<projectPath, fsys, framework, routes, errors, calls, detected,
                   root, listed, seenRoutes, input, output,
                   logged, options, exitCode, pending, settled>>

Next ==
    \/ CheckPath
    \/ Detect
    \/ Dispatch
    \/ RootCheck
    \/ RootGlob
    \/ RootFile
    \/ RootDone
    \/ ViteGlob
    \/ ViteFile
    \/ ViteDone
    \/ ReactRouterGlob
    \/ ReactRouterFile
    \/ ReactRouterDone

Spec == Init /\ [][Next]_vars

-----------------------------------------------------------------------------
(* detectFramework alone, over every manifest and set of configuration files *)

DetectProjects ==
    {[rootProbe |-> "exists", manifest |-> m, configs |-> c, appDir |-> FALSE,
      pagesDir |-> FALSE, files |-> {}] :
         m \in Manifests, c \in SUBSET ConfigFiles}

InitDetect ==
    /\ projectPath = <<"/", "w">>
    /\ fsys \in DetectProjects
    /\ pc = "detect"
    /\ InitRun
    /\ input = <<>>
    /\ output = <<>>

SpecDetect == InitDetect /\ [][Detect]_vars

-----------------------------------------------------------------------------
(* The converters alone, over every file path within the bounds *)

DirSegments == {cUsers, cBlog, cId, cSlug}

BaseNames == {cPage, cLayout, cLoading, cError, cNotFound, cIndex, cUsers, cId, cSlug}

Extensions == {cTsx, cTs, cJsx, cJs}

DirPrefixes == UNION {[1..k -> DirSegments] : k \in 0..MaxDepth}

\* the relative paths the glob "**/*.{tsx,ts,jsx,js}" can return
RelPaths == {Join(d \o <<b \o e>>) : d \in DirPrefixes, b \in BaseNames, e \in Extensions}

InitConvert ==
    /\ projectPath = <<"/", "w">>
    /\ fsys \in {f \in DetectProjects : f.manifest.status = "absent" /\ f.configs = {}}
    /\ pc = "convert"
    /\ InitRun
    /\ input \in {[root |-> r, file |-> f] : r \in {"app", "pages"}, f \in RelPaths}
    /\ output = <<>>

\* the body of the loops of lines 172-185 and 208-221 for one file
Convert ==
    /\ pc = "convert"
    /\ output' = RootRecord(input.root, input.file)
    /\ pc' = "converted"
    /\ UNCHANGED <<projectPath, fsys, framework, routes, errors, outcome, calls,
                   detected, root, listed, seenRoutes, input,
                   logged, options, exitCode, pending, settled>>

SpecConvert == InitConvert /\ [][Convert]_vars

-----------------------------------------------------------------------------
(* extractReactRouterRoutesFromFile alone, over generated files *)

DeclaredPaths == {<<"/">>, cProfilePath, cStar}

\* the attribute lists of a <Route> element: an optional path literal, then an
\* optional component={X} or element={<X />}
RouteElements ==
    {p \o c : p \in {<<>>} \cup {<<StringAttr("path", v)>> : v \in DeclaredPaths},
              c \in {<<>>} \cup {<<IdentAttr("component", x)>> : x \in {"Home", "Dash", "Profile"}}
                           \cup {<<JsxAttr("element", x)>> : x \in {"Home", "Profile"}}}

\* App.jsx with up to MaxRoutes <Route> elements; Profile is not imported
MarkupFiles ==
    {[AppFile EXCEPT !.jsx = j] : j \in UNION {[1..k -> RouteElements] : k \in 0..MaxRoutes}}

CallPaths == {cA, cAB}

\* the elements an array literal can hold, made of at most n elements in all,
\* and the array literals of at most n elements in all
RECURSIVE ElementTrees(_)
RECURSIVE Forests(_)
ElementTrees(n) ==
    {OtherElement, ObjectOf(<<>>)}
    \cup {ObjectOf(<<StringAttr("path", p)>>) : p \in CallPaths}
    \cup {ObjectOf(<<StringAttr("path", p), ArrayOf(f)>>) : p \in CallPaths, f \in Forests(n - 1)}

Forests(n) ==
    IF n = 0 THEN {<<>>}
    ELSE {<<>>} \cup UNION {{<<e>> \o f : e \in ElementTrees(k), f \in Forests(n - k)}
                            : k \in 1..n}

\* src/r.tsx with one createBrowserRouter call: on an array literal, or on
\* something else
RouterCallFiles ==
    {[RouterFile EXCEPT !.calls = <<[kind |-> "array", value |-> f]>>] : f \in Forests(MaxNodes)}
    \cup {[RouterFile EXCEPT !.calls = <<[kind |-> "other"]>>]}

ParsedFiles == MarkupFiles \cup RouterCallFiles \cup SourceFiles

InitFile ==
    /\ projectPath = <<"/", "w">>
    /\ fsys \in {f \in Projects : /\ f.rootProbe = "exists" /\ f.manifest.status = "absent"
                                  /\ f.configs = {} /\ ~f.appDir /\ ~f.pagesDir}
    /\ pc = "file"
    /\ InitRun
    /\ input \in ParsedFiles
    /\ output = <<>>

\* const fileRoutes = await extractReactRouterRoutesFromFile(file, projectPath)
ParseFile ==
    /\ pc = "file"
    /\ output' = extractReactRouterRoutesFromFile(input, projectPath, fsys)
    /\ logged' = logged \cup FileLog(input)
    /\ pc' = "parsed"
    /\ UNCHANGED <<projectPath, fsys, framework, routes, errors, outcome, calls,
                   detected, root, listed, seenRoutes, input, options, exitCode,
                   pending, settled>>

SpecFile == InitFile /\ [][ParseFile]_vars

-----------------------------------------------------------------------------
(* extractReactRouterRoutesFromFile step by step: the promises of one file *)
(*                                                                         *)
(* A promise is named by its address: <<0, i>> is the i-th <Route> element, *)
(* <<c>> the c-th createBrowserRouter call, <<c, k>> the k-th element of    *)
(* its array literal, <<c, k, m>> the m-th element of that element's        *)
(* `children` array, and so on. A turn of the event loop answers one        *)
(* fs.pathExists probe of one promise, or settles one promise that has      *)
(* nothing left to wait for; the order of the turns is open.                *)

\* the array literal of the last `children` property of an object literal
ChildArray(node) ==
    LET at == {i \in DOMAIN node.value :
                  node.value[i].name = "children" /\ node.value[i].kind = "array"}
    IN IF at = {} THEN <<>>
       ELSE node.value[CHOOSE i \in at : \A j \in at : j <= i].value

\* the addresses of the object literals of an array literal, in array order
RECURSIVE ObjectAddresses(_, _)
ObjectAddresses(prefix, elements) ==
    IF elements = <<>> THEN <<>>
    ELSE ObjectAddresses(prefix, SubSeq(elements, 1, Len(elements) - 1))
         \o (IF elements[Len(elements)].kind = "object"
             THEN <<prefix \o <<Len(elements)>>>> ELSE <<>>)

CallArray(file, c) == IF file.calls[c].kind = "array" THEN file.calls[c].value ELSE <<>>

RECURSIVE NodeAt(_, _)
NodeAt(file, a) ==
    IF Len(a) = 2 THEN CallArray(file, a[1])[a[2]]
    ELSE ChildArray(NodeAt(file, SubSeq(a, 1, Len(a) - 1)))[a[Len(a)]]

\* the promises a promise waits for: the elements of a call, the children of
\* an object literal, none for a <Route> element
Awaited(file, a) ==
    IF a[1] = 0 THEN <<>>
    ELSE IF Len(a) = 1 THEN ObjectAddresses(a, CallArray(file, a[1]))
    ELSE ObjectAddresses(a, ChildArray(NodeAt(file, a)))

RECURSIVE Below(_, _)
Below(file, a) ==
    {a} \cup UNION {Below(file, Awaited(file, a)[k]) : k \in DOMAIN Awaited(file, a)}

Promises(file) ==
    {<<0, i>> : i \in DOMAIN file.jsx}
    \cup UNION {Below(file, <<c>>) : c \in DOMAIN file.calls}

\* the fs.pathExists probes of one resolveImportPath call, lines 661-670
ProbeCount(importPath, currentFile, project, fs) ==
    IF StartsWith(importPath, <<".">>) /\ ExtName(importPath) = <<>>
    THEN LET resolvedPath == Resolve(Dirname(currentFile), importPath)
             withExt(i) == DropLast(resolvedPath, 1)
                           \o <<resolvedPath[Len(resolvedPath)] \o ProbedExtensions[i]>>
             found == {i \in 1..Len(ProbedExtensions) : PathExists(fs, project, withExt(i))}
         IN IF found # {} THEN CHOOSE i \in found : \A j \in found : i <= j
            ELSE Len(ProbedExtensions)
    ELSE 0

\* the probes of the attributes or properties of one element
RECURSIVE Probes(_, _, _, _)
Probes(attrs, file, project, fs) ==
    IF attrs = <<>> THEN 0
    ELSE LET attr == Head(attrs)
             names == \/ attr.name = "component" /\ attr.kind = "identifier"
                      \/ attr.name = "element" /\ attr.kind = "jsx"
         IN (IF names /\ attr.value \in DOMAIN file.imports
                /\ file.imports[attr.value] # <<>>
             THEN ProbeCount(file.imports[attr.value], Absolute(project, file.name),
                             project, fs)
             ELSE 0)
            + Probes(Tail(attrs), file, project, fs)

OwnProbes(file, a, project, fs) ==
    IF a[1] = 0 THEN Probes(file.jsx[a[2]], file, project, fs)
    ELSE IF Len(a) = 1 THEN 0
    ELSE Probes(NodeAt(file, a).value, file, project, fs)

\* results pushed in the order the promises settled
SettleOrderAll(promises, order) ==
    SelectSeq(order, LAMBDA a : \E k \in DOMAIN promises : promises[k] = a)

\* await Promise.all(promises): the order in which the results are read
PromiseAll(promises, order) == promises

\* what the promise of an object literal fulfils with, lines 572-646
RECURSIVE ObjectValue(_, _, _, _, _)
ObjectValue(file, a, project, fs, order) ==
    LET node == NodeAt(file, a)
        own == extractRouteFromObjectExpression(node.value, file, project, fs)
        read == PromiseAll(Awaited(file, a), order)
    IN IF \E i \in DOMAIN node.value :
              node.value[i].name = "children" /\ node.value[i].kind = "array"
       THEN With(own, "children",
                 [k \in DOMAIN read |-> ObjectValue(file, read[k], project, fs, order)])
       ELSE own

\* what the promise of a call fulfils with: the loop of lines 545-559 awaits
\* one element after the other
CallValue(file, c, project, fs, order) ==
    LET elements == Awaited(file, <<c>>)
    IN [k \in DOMAIN elements |-> ObjectValue(file, elements[k], project, fs, order)]

MarkupPromises(file) == [i \in DOMAIN file.jsx |-> <<0, i>>]
CallPromises(file) == [c \in DOMAIN file.calls |-> <<c>>]

HasSettled(a) == \E k \in DOMAIN settled : settled[k] = a

\* a promise has been started: a <Route> element and a call by the traversal,
\* an element of a call when the elements before it have settled, a child when
\* its parent has been started and has its own probes answered (in the files
\* below, the property that resolves an import precedes `children`)
RECURSIVE Started(_, _)
Started(file, a) ==
    \/ a[1] = 0
    \/ Len(a) = 1
    \/ /\ Len(a) = 2
       /\ \A k \in DOMAIN Awaited(file, <<a[1]>>) :
             Awaited(file, <<a[1]>>)[k][2] < a[2] => HasSettled(Awaited(file, <<a[1]>>)[k])
    \/ /\ Len(a) > 2
       /\ Started(file, SubSeq(a, 1, Len(a) - 1))
       /\ pending[SubSeq(a, 1, Len(a) - 1)] = 0

\* <Route path="/" component={Home} />, <Route path="/p/:u" element={<Home />} />,
\* createBrowserRouter([{ path: "/a", element: <Home />,
\*                        children: [{ path: "/a/b", element: <Home /> }, null,
\*                                   { path: "/", element: <Home /> }] },
\*                      { path: "/a/b" }])
ResolvingFile ==
    [name |-> <<"A", "p", "p", ".", "j", "s", "x">>, readable |-> TRUE,
     tokens |-> {"react-router-dom"}, parses |-> TRUE,
     imports |-> [Home |-> cHomeSpec],
     jsx |-> << <<StringAttr("path", <<"/">>), IdentAttr("component", "Home")>>,
                <<StringAttr("path", cProfilePath), JsxAttr("element", "Home")>> >>,
     calls |-> << [kind |-> "array",
                   value |-> <<ObjectOf(<<StringAttr("path", cA), JsxAttr("element", "Home"),
                                          ArrayOf(<<ObjectOf(<<StringAttr("path", cAB),
                                                               JsxAttr("element", "Home")>>),
                                                    OtherElement,
                                                    ObjectOf(<<StringAttr("path", <<"/">>),
                                                               JsxAttr("element", "Home")>>)>>)>>),
                               ObjectOf(<<StringAttr("path", cAB)>>)>>] >>]

AwaitedFiles == {ResolvingFile, AppFile, RouterFile, NavFile, BrokenFile}

InitAwait ==
    /\ projectPath \in ProjectPaths
    /\ fsys \in {f \in Projects : /\ f.rootProbe = "exists" /\ f.manifest.status = "absent"
                                  /\ f.configs = {} /\ ~f.appDir /\ ~f.pagesDir}
    /\ pc = "parse"
    /\ InitRun
    /\ input \in AwaitedFiles
    /\ output = <<>>

\* lines 380-444: the parse and the two traversals; a parse that throws goes to
\* the catch of line 452 and the function returns its empty list
Traverse ==
    /\ pc = "parse"
    /\ IF input.parses
       THEN /\ pending' = [a \in Promises(input) |-> OwnProbes(input, a, projectPath, fsys)]
            /\ pc' = "awaitMarkup"
            /\ UNCHANGED logged
       ELSE /\ logged' = logged \cup {ParseLog}
            /\ pc' = "fileReturned"
            /\ UNCHANGED pending
    /\ UNCHANGED <<projectPath, fsys, framework, routes, errors, outcome, calls,
                   detected, root, listed, seenRoutes, input, output, options,
                   exitCode, settled>>

Awaiting == pc \in {"awaitMarkup", "awaitCalls"}

\* fs.pathExists answers one probe of a promise
Probe(a) ==
    /\ Awaiting
    /\ Started(input, a)
    /\ pending[a] > 0
    /\ pending' = [pending EXCEPT ![a] = @ - 1]
    /\ UNCHANGED <<projectPath, fsys, pc, framework, routes, errors, outcome, calls,
                   detected, root, listed, seenRoutes, input, output, logged, options,
                   exitCode, settled>>

\* a promise with its probes answered and the promises it waits for settled
\* is fulfilled
Settle(a) ==
    /\ Awaiting
    /\ Started(input, a)
    /\ pending[a] = 0
    /\ ~HasSettled(a)
    /\ \A k \in DOMAIN Awaited(input, a) : HasSettled(Awaited(input, a)[k])
    /\ settled' = Append(settled, a)
    /\ UNCHANGED <<projectPath, fsys, pc, framework, routes, errors, outcome, calls,
                   detected, root, listed, seenRoutes, input, output, logged, options,
                   exitCode, pending>>

\* lines 446-448: await Promise.all(jsxPromises), then the pushes
JoinMarkup ==
    /\ pc = "awaitMarkup"
    /\ \A i \in DOMAIN input.jsx : HasSettled(<<0, i>>)
    /\ LET read == PromiseAll(MarkupPromises(input), settled)
       IN output' = [k \in DOMAIN read |->
                        extractRouteFromJSXElement(input.jsx[read[k][2]], input,
                                                   projectPath, fsys)]
    /\ pc' = "awaitCalls"
    /\ UNCHANGED <<projectPath, fsys, framework, routes, errors, outcome, calls,
                   detected, root, listed, seenRoutes, input, logged, options,
                   exitCode, pending, settled>>

\* lines 449-456: await Promise.all(routerArrayPromises), the pushes, the return
JoinCalls ==
    /\ pc = "awaitCalls"
    /\ \A c \in DOMAIN input.calls : HasSettled(<<c>>)
    /\ LET read == PromiseAll(CallPromises(input), settled)
       IN output' = output \o Flatten([k \in DOMAIN read |->
                        CallValue(input, read[k][1], projectPath, fsys, settled)])
    /\ pc' = "fileReturned"
    /\ UNCHANGED <<projectPath, fsys, framework, routes, errors, outcome, calls,
                   detected, root, listed, seenRoutes, input, logged, options,
                   exitCode, pending, settled>>

NextAwait ==
    \/ Traverse
    \/ \E a \in DOMAIN pending : Probe(a)
    \/ \E a \in DOMAIN pending : Settle(a)
    \/ JoinMarkup
    \/ JoinCalls

SpecAwait == InitAwait /\ [][NextAwait]_vars

-----------------------------------------------------------------------------
(* resolveImportPath alone, over relative specifiers *)

cHome == <<"H", "o", "m", "e">>
cSrc == <<"s", "r", "c">>
cUi == <<"u", "i">>
cCss == <<".", "c", "s", "s">>

\* a relative specifier "./" or "../", then segments, then an extension or
\* none, written in a file n.tsx of a directory of the project
Specifiers ==
    {[dir |-> d, up |-> u, segs |-> g, ext |-> e] :
         d \in {<<>>, <<cSrc>>, <<cSrc, cUi>>},
         u \in BOOLEAN,
         g \in {<<cHome>>, <<cPages, cHome>>, <<cUi, cHome>>},
         e \in {<<>>, cJsx, cCss}}

SpecifierText(spec) ==
    (IF spec.up THEN <<".", ".", "/">> ELSE <<".", "/">>) \o Join(spec.segs) \o spec.ext

ImportingFile(spec) == Join(spec.dir \o <<<<"n">> \o cTsx>>)

\* the target of a specifier: the directory of the importing file, one level
\* up for "../", then the segments and the extension of the specifier
TargetOf(spec) ==
    Join((IF spec.up THEN SubSeq(spec.dir, 1, Len(spec.dir) - 1) ELSE spec.dir)
         \o spec.segs) \o spec.ext

\* the files a probe of the target could find
Candidates(spec) == {TargetOf(spec) \o ProbedExtensions[i] : i \in DOMAIN ProbedExtensions}

InitResolve ==
    /\ projectPath \in ProjectPaths
    /\ input \in {spec \in Specifiers : spec.up => spec.dir # <<>>}
    /\ fsys \in {[rootProbe |-> "exists", manifest |-> [status |-> "absent"],
                   configs |-> {}, appDir |-> FALSE, pagesDir |-> FALSE, files |-> f] :
                      f \in SUBSET Candidates(input)}
    /\ pc = "resolve"
    /\ InitRun
    /\ output = <<>>

\* const fullPath = await resolveImportPath(importPath, filePath, projectPath)
ResolveImport ==
    /\ pc = "resolve"
    /\ output' = resolveImportPath(SpecifierText(input),
                                   Absolute(projectPath, ImportingFile(input)),
                                   projectPath, fsys)
    /\ pc' = "resolved"
    /\ UNCHANGED <<projectPath, fsys, framework, routes, errors, outcome, calls,
                   detected, root, listed, seenRoutes, input, logged, options,
                   exitCode, pending, settled>>

SpecResolve == InitResolve /\ [][ResolveImport]_vars

-----------------------------------------------------------------------------
(* resolveImportPath alone, over specifiers that start with "/" or "src/" *)

cComponents == <<"c", "o", "m", "p", "o", "n", "e", "n", "t", "s">>

\* "/" or "src/", then segments, then an extension or none, written in a
\* file n.tsx of a directory of the project
RootedSpecifiers ==
    {[dir |-> d, lead |-> l, segs |-> g, ext |-> e] :
         d \in {<<>>, <<cSrc>>, <<cSrc, cUi>>},
         l \in {<<"/">>, cSrc \o <<"/">>},
         g \in {<<cHome>>, <<cComponents, cHome>>, <<cUi, cHome>>},
         e \in {<<>>, cJsx, cCss}}

RootedText(spec) == spec.lead \o Join(spec.segs) \o spec.ext

InitRooted ==
    /\ projectPath \in ProjectPaths
    /\ input \in RootedSpecifiers
    /\ fsys \in {[rootProbe |-> "exists", manifest |-> [status |-> "absent"],
                   configs |-> {}, appDir |-> FALSE, pagesDir |-> FALSE, files |-> f] :
                      f \in ExistingFiles}
    /\ pc = "resolveRooted"
    /\ InitRun
    /\ output = <<>>

\* const fullPath = await resolveImportPath(importPath, filePath, projectPath)
ResolveRooted ==
    /\ pc = "resolveRooted"
    /\ output' = resolveImportPath(RootedText(input),
                                   Absolute(projectPath, ImportingFile(input)),
                                   projectPath, fsys)
    /\ pc' = "rootedResolved"
    /\ UNCHANGED <<projectPath, fsys, framework, routes, errors, outcome, calls,
                   detected, root, listed, seenRoutes, input, logged, options,
                   exitCode, pending, settled>>

SpecRooted == InitRooted /\ [][ResolveRooted]_vars

-----------------------------------------------------------------------------
(* The command-line entry point, main of src/bin/cli.js *)

cJsonFlag == <<"-", "-", "j", "s", "o", "n">>
cPrettyFlag == <<"-", "-", "p", "r", "e", "t", "t", "y">>
cHelpFlag == <<"-", "-", "h", "e", "l", "p">>
cHFlag == <<"-", "h">>
cVersionFlag == <<"-", "-", "v", "e", "r", "s", "i", "o", "n">>
cVFlag == <<"-", "v">>
cOtherFlag == <<"-", "x">>
cDirArg == <<"a", "p", "p">>
cDotArg == <<".">>

Args == {cJsonFlag, cPrettyFlag, cHelpFlag, cHFlag, cVersionFlag, cVFlag, cOtherFlag,
         cDirArg, cDotArg}

Argvs == UNION {[1..k -> Args] : k \in 0..MaxArgs}

\* process.cwd()
Cwd == <<"/", "w">>

\* the loop of lines 176-192 over the arguments left: the options and the
\* project path (<<>> while it is null)
RECURSIVE ParseArgv(_, _, _)
ParseArgv(args, opts, path) ==
    IF args = <<>> THEN [options |-> opts, projectPath |-> path]
    ELSE LET arg == Head(args) IN
         IF arg = cJsonFlag
         THEN ParseArgv(Tail(args), [opts EXCEPT !.json = TRUE, !.pretty = FALSE], path)
         ELSE IF arg = cPrettyFlag
         THEN ParseArgv(Tail(args), [opts EXCEPT !.pretty = TRUE, !.json = FALSE], path)
         ELSE IF arg = cHelpFlag \/ arg = cHFlag
         THEN ParseArgv(Tail(args), [opts EXCEPT !.help = TRUE], path)
         ELSE IF arg = cVersionFlag \/ arg = cVFlag
         THEN ParseArgv(Tail(args), [opts EXCEPT !.version = TRUE], path)
         ELSE IF path = <<>> /\ ~StartsWith(arg, <<"-">>)
         THEN ParseArgv(Tail(args), opts, arg)
         ELSE ParseArgv(Tail(args), opts, path)

\* process.exit(1)
ExitFailure == 1

\* what `await extractSiteRoutes(resolvedPath)` gives main: a result whose
\* errors are empty or not, or a rejection
Extractions(resolvedPath) ==
    {[outcome |-> "returned", errors |-> e] :
         e \in {<<>>, <<UnknownFrameworkError>>, <<PathMissingError(resolvedPath)>>,
                <<ExtractionError(cAccessError)>>}}
    \cup {[outcome |-> "threw", errors |-> <<>>]}

InitCli ==
    /\ projectPath = <<>>
    /\ fsys \in {f \in Projects : f.rootProbe = "missing"}
    /\ pc = "main"
    /\ InitRun
    /\ input \in Argvs
    /\ output = <<>>

\* lines 164-192
ParseArgs ==
    /\ pc = "main"
    /\ LET parsed == ParseArgv(input, options, <<>>)
       IN options' = parsed.options /\ projectPath' = parsed.projectPath
    /\ pc' = "args"
    /\ UNCHANGED <<fsys, framework, routes, errors, outcome, calls, detected, root,
                   listed, seenRoutes, input, output, logged, exitCode, pending, settled>>

\* lines 195-198
Help ==
    /\ pc = "args"
    /\ options.help
    /\ output' = <<"usage">>
    /\ pc' = "exited"
    /\ UNCHANGED <<projectPath, fsys, framework, routes, errors, outcome, calls,
                   detected, root, listed, seenRoutes, input, logged, options,
                   exitCode, pending, settled>>

\* lines 200-203
Version ==
    /\ pc = "args"
    /\ ~options.help
    /\ options.version
    /\ output' = <<"version">>
    /\ pc' = "exited"
    /\ UNCHANGED <<projectPath, fsys, framework, routes, errors, outcome, calls,
                   detected, root, listed, seenRoutes, input, logged, options,
                   exitCode, pending, settled>>

\* lines 206-212
RequirePath ==
    /\ pc = "args"
    /\ ~options.help
    /\ ~options.version
    /\ projectPath = <<>>
    /\ logged' = logged \cup {"Project path is required"}
    /\ exitCode' = ExitFailure
    /\ pc' = "exited"
    /\ UNCHANGED <<projectPath, fsys, framework, routes, errors, outcome, calls,
                   detected, root, listed, seenRoutes, input, output, options,
                   pending, settled>>

\* lines 215-224: the path is resolved and extractSiteRoutes awaited; a
\* rejection goes to the catch of line 236
RunExtraction ==
    /\ pc = "args"
    /\ ~options.help
    /\ ~options.version
    /\ projectPath # <<>>
    /\ LET resolvedPath == <<"/">> \o Join(Resolve(Cwd, projectPath)) IN
       /\ projectPath' = resolvedPath
       /\ \E r \in Extractions(resolvedPath) :
             /\ outcome' = r.outcome
             /\ errors' = r.errors
             /\ pc' = IF r.outcome = "threw" THEN "catch" ELSE "print"
    /\ calls' = calls \cup {"extractSiteRoutes"}
    /\ UNCHANGED <<fsys, framework, routes, detected, root, listed, seenRoutes, input,
                   output, logged, options, exitCode, pending, settled>>

\* lines 226-230 with printResults, lines 64-161
PrintResults ==
    /\ pc = "print"
    /\ output' = <<IF options.json THEN "json" ELSE "pretty", errors>>
    /\ pc' = "printed"
    /\ UNCHANGED <<projectPath, fsys, framework, routes, errors, outcome, calls,
                   detected, root, listed, seenRoutes, input, logged, options,
                   exitCode, pending, settled>>

\* ExitStatus with the exit of line 234 taken in pretty mode only
ExitStatusPrettyOnly ==
    /\ pc = "printed"
    /\ exitCode' = IF Len(errors) > 0 /\ ~options.json THEN ExitFailure ELSE exitCode
    /\ pc' = "exited"
    /\ UNCHANGED <<projectPath, fsys, framework, routes, errors, outcome, calls,
                   detected, root, listed, seenRoutes, input, output, logged, options,
                   pending, settled>>

\* lines 232-235, then the end of main
ExitStatus ==
    /\ pc = "printed"
    /\ exitCode' = IF Len(errors) > 0 THEN ExitFailure ELSE exitCode
    /\ pc' = "exited"
    /\ UNCHANGED <<projectPath, fsys, framework, routes, errors, outcome, calls,
                   detected, root, listed, seenRoutes, input, output, logged, options,
                   pending, settled>>

\* the catch of lines 236-252
CatchExit ==
    /\ pc = "catch"
    /\ IF options.json
       THEN output' = <<"json", <<"error">>>> /\ UNCHANGED logged
       ELSE logged' = logged \cup {"Error:"} /\ UNCHANGED output
    /\ exitCode' = ExitFailure
    /\ pc' = "exited"
    /\ UNCHANGED <<projectPath, fsys, framework, routes, errors, outcome, calls,
                   detected, root, listed, seenRoutes, input, options, pending, settled>>

NextCli ==
    \/ ParseArgs
    \/ Help
    \/ Version
    \/ RequirePath
    \/ RunExtraction
    \/ PrintResults
    \/ ExitStatus
    \/ CatchExit

SpecCli == InitCli /\ [][NextCli]_vars

-----------------------------------------------------------------------------
(* Properties *)

FrameworkNames == {"nextjs", "vite", "react-router-dom", "unknown"}

\* C1: a run on a project path that does not exist returns exactly the error
\* "Project path does not exist: <path>", no routes and the unknown framework,
\* and enters neither framework detection nor any extraction function.
C1_MissingPathFastFail ==
    fsys.rootProbe = "missing" =>
        /\ calls = {}
        /\ pc \in {"start", "done"}
        /\ outcome = "returned" =>
              /\ errors = <<PathMissingError(projectPath)>>
              /\ routes = <<>>
              /\ framework = [name |-> "unknown"]

C1_Witness ==
    /\ fsys.rootProbe = "missing"
    /\ outcome = "returned"
    /\ Len(errors) = 1

\* C2: whatever fails underneath (the existence check, the manifest read, a
\* listing, a file read, a parse), extractSiteRoutes never rejects: a run that
\* has not returned can still take a step (one that leaves a loop or moves
\* on), and a run that ended has returned a framework, a routes sequence and
\* an errors sequence.
C2_NeverThrows ==
    /\ outcome \in {"pending", "returned"}
    /\ outcome = "pending" =>
          ENABLED (CheckPath \/ Detect \/ Dispatch \/ RootCheck \/ RootGlob \/ RootDone
                   \/ ViteGlob \/ ViteDone \/ ReactRouterGlob \/ ReactRouterDone)
    /\ pc = "done" =>
          /\ outcome = "returned"
          /\ framework.name \in FrameworkNames
          /\ DOMAIN routes = 1..Len(routes)
          /\ DOMAIN errors = 1..Len(errors)

C2_Witness ==
    /\ outcome = "returned"
    /\ \/ fsys.rootProbe = "throws"
       \/ fsys.manifest.status = "corrupt"
    /\ Len(errors) = 1
    /\ errors[1][1] = "Error during extraction: "

\* the merged dependency table of the project's manifest
MergedDependencies ==
    MergeDependencies(fsys.manifest.dependencies, fsys.manifest.devDependencies)

\* C3: with a manifest, the key `next` in the merged dependencies gives nextjs
\* with the declared version verbatim, whatever else is declared; otherwise the
\* key `vite` gives vite with its version; otherwise the key `react-router-dom`
\* gives react-router-dom; and this for every version string.
C3_ManifestPriority ==
    (pc = "dispatch" /\ fsys.manifest.status = "ok") =>
        LET m == MergedDependencies IN
        /\ "next" \in DOMAIN m => detected = [name |-> "nextjs", version |-> m["next"]]
        /\ ("next" \notin DOMAIN m /\ "vite" \in DOMAIN m) =>
               detected = [name |-> "vite", version |-> m["vite"]]
        /\ ("next" \notin DOMAIN m /\ "vite" \notin DOMAIN m
                /\ "react-router-dom" \in DOMAIN m) =>
               detected.name = "react-router-dom"

\* no manifest, or a manifest declaring none of the three packages
NoManifestMatch ==
    \/ fsys.manifest.status = "absent"
    \/ /\ fsys.manifest.status = "ok"
       /\ DOMAIN MergedDependencies \cap Packages = {}

HasNextConfig == {"next.config.js", "next.config.ts"} \cap fsys.configs # {}

HasViteConfig == {"vite.config.js", "vite.config.ts"} \cap fsys.configs # {}

\* C4 as claimed: without a manifest match a vite configuration file gives vite
\* with no version, only otherwise a next configuration file gives nextjs, and
\* neither gives unknown; so a project with both is vite.
C4_ViteConfigFirst ==
    (pc = "dispatch" /\ NoManifestMatch) =>
        detected = IF HasViteConfig THEN [name |-> "vite"]
                   ELSE IF HasNextConfig THEN [name |-> "nextjs"]
                   ELSE [name |-> "unknown"]

\* C4 amended: without a manifest match a next configuration file
\* (next.config.js or next.config.ts) gives nextjs with no version, only
\* otherwise a vite configuration file gives vite with no version, and neither
\* gives unknown; so a project with both is nextjs.
C4_NextConfigFirst ==
    (pc = "dispatch" /\ NoManifestMatch) =>
        detected = IF HasNextConfig THEN [name |-> "nextjs"]
                   ELSE IF HasViteConfig THEN [name |-> "vite"]
                   ELSE [name |-> "unknown"]

C4_Witness ==
    /\ pc = "dispatch"
    /\ fsys.manifest.status = "absent"
    /\ HasNextConfig
    /\ HasViteConfig
    /\ detected = [name |-> "nextjs"]

\* C5: when the root exists and detection returns unknown, the run returns
\* exactly the error "Unsupported or unknown framework" and no routes; after
\* detection of any other framework that error is never among the errors.
C5_UnknownFrameworkError ==
    /\ (outcome = "returned" /\ detected = [name |-> "unknown"]) =>
           /\ errors = <<UnknownFrameworkError>>
           /\ routes = <<>>
    /\ (detected # NotDetected /\ detected # [name |-> "unknown"]) =>
           \A i \in 1..Len(errors) : errors[i] # UnknownFrameworkError

C5_Witness ==
    /\ outcome = "returned"
    /\ fsys.rootProbe = "exists"
    /\ detected = [name |-> "unknown"]
    /\ errors = <<UnknownFrameworkError>>

\* the segments of a file path without its extension
FileSegments(file) == Split(StripExtension(file))

IsBracketed(seg) == Len(seg) >= 3 /\ Head(seg) = "[" /\ seg[Len(seg)] = "]"

IsSpread(seg) == IsBracketed(seg) /\ Len(seg) >= 6 /\ SubSeq(seg, 2, 4) = cDots

HasBracketed(file) == \E i \in 1..Len(FileSegments(file)) : IsBracketed(FileSegments(file)[i])

HasSpread(file) == \E i \in 1..Len(FileSegments(file)) : IsSpread(FileSegments(file)[i])

\* C6: in both converters a spread segment [...name] of the file path becomes
\* `*` in the route path and never `:...name`; blog/[...slug].tsx under the
\* pages root gives /blog/*.
C6_SpreadBecomesStar ==
    pc = "converted" =>
        /\ HasSpread(input.file) =>
               /\ Includes(output.path, <<"*">>)
               /\ ~Includes(output.path, <<":">> \o cDots)
        /\ (input.root = "pages" /\ input.file = cBlog \o <<"/">> \o cSlug \o cTsx) =>
               output.path = <<"/">> \o cBlog \o <<"/", "*">>

\* C7: the record of a file under the app root has a path that starts with
\* "/" and holds neither "[" nor "]", and catchAll exactly when the path
\* holds "*".
C7_AppRecordShape ==
    (pc = "converted" /\ input.root = "app") =>
        /\ StartsWith(output.path, <<"/">>)
        /\ ~Includes(output.path, <<"[">>)
        /\ ~Includes(output.path, <<"]">>)
        /\ output.catchAll <=> Includes(output.path, <<"*">>)

\* C8: a record of either convention root has dynamic exactly when the file
\* path has a bracketed segment and catchAll exactly when it has a spread
\* segment; users/[id].tsx under pages gives /users/:id, dynamic and not
\* catchAll, and index.tsx under pages gives / with both false.
C8_DynamicFromBrackets ==
    pc = "converted" =>
        /\ output.dynamic <=> HasBracketed(input.file)
        /\ output.catchAll <=> HasSpread(input.file)
        /\ (input.root = "pages" /\ input.file = cUsers \o <<"/">> \o cId \o cTsx) =>
               /\ output.path = <<"/">> \o cUsers \o <<"/", ":", "i", "d">>
               /\ output.dynamic
               /\ ~output.catchAll
        /\ (input.root = "pages" /\ input.file = cIndex \o cTsx) =>
               /\ output.path = <<"/">>
               /\ ~output.dynamic
               /\ ~output.catchAll

SpecialNames == {SpecialFiles[i] : i \in 1..Len(SpecialFiles)}

\* C9: under the app root a file whose basename is page, layout, loading,
\* error or not-found gives the route path of its directory, the app root
\* itself included: page.tsx gives /, dashboard/page.tsx gives /dashboard.
C9_SpecialFileGivesDirectory ==
    (pc = "converted" /\ input.root = "app") =>
        LET segs == FileSegments(input.file)
            dir == DropLast(segs, 1)
        IN segs[Len(segs)] \in SpecialNames =>
               output.path = <<"/">> \o SubstituteSegments(Join(dir))

IsAppRecord(r) == StartsWith(r.resolvedComponentPath, cApp \o <<"/">>)

IsPagesRecord(r) == StartsWith(r.resolvedComponentPath, cPages \o <<"/">>)

\* C10: for a nextjs project the routes are the records of the app root
\* followed by the records of the pages root, each in listing order: no pages
\* record ever precedes an app record, and a root that does not exist
\* contributes none.
C10_AppBeforePages ==
    (detected # NotDetected /\ detected.name = "nextjs") =>
        /\ \A i, j \in 1..Len(routes) :
               (IsPagesRecord(routes[i]) /\ IsAppRecord(routes[j])) => j < i
        /\ \A i \in 1..Len(routes) :
               /\ IsAppRecord(routes[i]) \/ IsPagesRecord(routes[i])
               /\ IsAppRecord(routes[i]) => fsys.appDir
               /\ IsPagesRecord(routes[i]) => fsys.pagesDir
        /\ outcome = "returned" =>
               LET appFiles == SelectSeq(listed, LAMBDA e : e[1] = "app")
                   pagesFiles == SelectSeq(listed, LAMBDA e : e[1] = "pages")
               IN routes = [i \in 1..Len(appFiles) |-> AppRecord(appFiles[i][2])]
                           \o [i \in 1..Len(pagesFiles) |-> PagesRecord(pagesFiles[i][2])]

C10_Witness ==
    /\ outcome = "returned"
    /\ detected # NotDetected
    /\ detected.name = "nextjs"
    /\ fsys.appDir
    /\ fsys.pagesDir
    /\ Len(routes) = 2
    /\ IsAppRecord(routes[1])
    /\ IsPagesRecord(routes[2])

-----------------------------------------------------------------------------
(* Properties of the declaration scan *)

FileNamed(name) == CHOOSE f \in SourceFiles : f.name = name

\* what the files of a listing declare, file after file, before any
\* deduplication; an unreadable file or one without a routing token has nothing
RECURSIVE Discovered(_)
Discovered(entries) ==
    IF entries = <<>> THEN <<>>
    ELSE LET file == FileNamed(Head(entries)[2])
         IN (IF file.readable /\ HasSignal(file)
             THEN extractReactRouterRoutesFromFile(file, projectPath, fsys)
             ELSE <<>>)
            \o Discovered(Tail(entries))

PairOf(route) == <<route.path, route.component>>

\* the records of a sequence that no earlier record shares its pair with
RECURSIVE FirstOfEachPair(_)
FirstOfEachPair(all) ==
    IF all = <<>> THEN <<>>
    ELSE LET front == SubSeq(all, 1, Len(all) - 1)
             last == all[Len(all)]
         IN IF \E i \in DOMAIN front : PairOf(front[i]) = PairOf(last)
            THEN FirstOfEachPair(front)
            ELSE Append(FirstOfEachPair(front), last)

\* C11: in a react-router-dom project no two top-level records of the result
\* have the same (path, component file) pair; the record kept for a pair is the
\* first one discovered in listing order and the later ones are dropped without
\* an error; records with the same path from different files are all kept.
C11_FirstOfEachPairKept ==
    framework.name = "react-router-dom" =>
        /\ \A i, j \in DOMAIN routes : i < j => PairOf(routes[i]) # PairOf(routes[j])
        /\ routes = FirstOfEachPair(Discovered(listed))
        /\ errors = <<>>

C11_Witness ==
    /\ framework.name = "react-router-dom"
    /\ outcome = "returned"
    /\ Len(routes) < Len(Discovered(listed))
    /\ \E i, j \in DOMAIN routes :
          /\ i < j
          /\ routes[i].path = routes[j].path
          /\ routes[i].component # routes[j].component

\* the records of a sequence together with all their descendants
RECURSIVE AllRecords(_)
AllRecords(records) ==
    UNION {{records[i]} \cup (IF "children" \in DOMAIN records[i]
                              THEN AllRecords(records[i].children) ELSE {})
           : i \in DOMAIN records}

\* a flag of a record, read as false when it is not set
Flag(record, name) == name \in DOMAIN record /\ record[name]

\* C12: in every record of a result, nested children included and whatever the
\* extraction strategy, a set catch-all flag comes with a set dynamic flag.
C12_CatchAllImpliesDynamic ==
    \A r \in AllRecords(routes) : Flag(r, "catchAll") => Flag(r, "dynamic")

\* C13: the path of every record of a result is non-empty and begins with "/",
\* whatever path literal a declaration gives and whatever the file is named.
C13_PathBeginsWithSlash ==
    \A r \in AllRecords(routes) : r.path # <<>> /\ Head(r.path) = "/"

\* the listed files that parse
Parsing(entries) == SelectSeq(entries, LAMBDA e : FileNamed(e[2]).parses)

RECURSIVE ScanAsReactRouter(_, _, _)
ScanAsReactRouter(entries, acc, seen) ==
    IF entries = <<>> THEN acc
    ELSE LET file == FileNamed(Head(entries)[2]) IN
         IF ~file.readable THEN acc
         ELSE IF HasSignal(file)
         THEN LET added == AddUnseen(acc, seen,
                               extractReactRouterRoutesFromFile(file, projectPath, fsys))
              IN ScanAsReactRouter(Tail(entries), added[1], added[2])
         ELSE ScanAsReactRouter(Tail(entries), acc, seen)

\* what the loop of extractViteRoutes makes of a listing
RECURSIVE ScanAsVite(_, _)
ScanAsVite(entries, acc) ==
    IF entries = <<>> THEN acc
    ELSE LET file == FileNamed(Head(entries)[2]) IN
         IF ~file.readable THEN acc
         ELSE IF HasSignal(file)
         THEN ScanAsVite(Tail(entries),
                         acc \o extractReactRouterRoutesFromFile(file, projectPath, fsys))
         ELSE ScanAsVite(Tail(entries), acc)

\* C22: on the same project files, a project detected as vite and a project
\* detected as react-router-dom select the same candidate files and return
\* the same sequence of records.
C22_ViteScansLikeReactRouter ==
    framework.name \in {"vite", "react-router-dom"} =>
        /\ routes = ScanAsVite(listed, <<>>)
        /\ routes = ScanAsReactRouter(listed, <<>>, {})

\* the resolved component of a record, as a set
ResolvedOf(route) ==
    IF "resolvedComponentPath" \in DOMAIN route THEN {route.resolvedComponentPath} ELSE {}

\* C23: under the react-router-dom strategy a declaration is dropped only
\* when an earlier one has the same path and the same resolved component: two
\* declarations of one file with the same path and different imported
\* components are both in the routes of the result.
C23_DifferentComponentsKept ==
    framework.name = "react-router-dom" =>
        LET all == Discovered(listed) IN
        \A i \in DOMAIN all :
            \E k \in DOMAIN routes :
                /\ routes[k].path = all[i].path
                /\ routes[k].component = all[i].component
                /\ ResolvedOf(routes[k]) = ResolvedOf(all[i])

\* the diagnostics of the catch blocks around the listings and the file reads
ScanLogs == {RootLog("app"), RootLog("pages"), ViteLog, ReactRouterLog}

\* C17: a run in which a listing under a convention root, the project-wide
\* listing or the read of a candidate file failed during route extraction
\* returns a result whose errors are not empty.
C17_IOFailureReported ==
    (outcome = "returned" /\ logged \cap ScanLogs # {}) => errors # <<>>

\* the turn at which a promise settled
SettledAt(a) == CHOOSE k \in DOMAIN settled : settled[k] = a

\* C19: the routes returned for one parsed file are its <Route> elements in
\* document order, then the elements of its createBrowserRouter calls in
\* traversal order, every record with its children in array order, whatever
\* the order in which the existence probes were answered and the promises
\* settled; and the file's routes are not returned before every probe has been
\* answered and every promise has settled.
C19_OrderIndependentOfSettling ==
    pc = "fileReturned" =>
        /\ output = extractReactRouterRoutesFromFile(input, projectPath, fsys)
        /\ input.parses =>
              \A a \in Promises(input) : pending[a] = 0 /\ HasSettled(a)

\* the second <Route> settled before the first, and the last child of the first
\* route object before its first child
C19_Witness ==
    /\ pc = "fileReturned"
    /\ input = ResolvingFile
    /\ SettledAt(<<0, 2>>) < SettledAt(<<0, 1>>)
    /\ SettledAt(<<1, 1, 3>>) < SettledAt(<<1, 1, 1>>)
    /\ SettledAt(<<1, 1>>) < SettledAt(<<0, 1>>)
    /\ Len(output) = 4
    /\ Len(output[3].children) = 2

-----------------------------------------------------------------------------
(* Properties of import resolution *)

\* the recognised extensions, in probing order
ProbingOrder == <<cTsx, cTs, cJsx, cJs>>

\* C20: a relative specifier without an extension is resolved against the
\* directory of the importing file and probed with .tsx, .ts, .jsx, .js in
\* this order; the result is the project-relative path with the first
\* extension whose file exists, and with .tsx when none exists; a relative
\* specifier with an extension is returned resolved, without any probe.
C20_RelativeSpecifierProbing ==
    pc = "resolved" =>
        LET target == TargetOf(input)
            found == {i \in DOMAIN ProbingOrder : target \o ProbingOrder[i] \in fsys.files}
            probes == ProbeCount(SpecifierText(input),
                                 Absolute(projectPath, ImportingFile(input)),
                                 projectPath, fsys)
        IN IF input.ext # <<>>
           THEN output = target /\ probes = 0
           ELSE IF found = {}
           THEN output = target \o cTsx /\ probes = Len(ProbingOrder)
           ELSE \E i \in found :
                   /\ \A j \in found : i <= j
                   /\ output = target \o ProbingOrder[i]
                   /\ probes = i

\* "../ui/Home" in src/ui/n.tsx with src/ui/Home.jsx and src/ui/Home.js on disk
C20_Witness ==
    /\ pc = "resolved"
    /\ input.up
    /\ input.ext = <<>>
    /\ input.dir = <<cSrc, cUi>>
    /\ input.segs = <<cUi, cHome>>
    /\ fsys.files = {TargetOf(input) \o cJsx, TargetOf(input) \o cJs}
    /\ output = Join(<<cSrc, cUi, cHome>>) \o cJsx

\* the location a rooted specifier names under the project root
UnderRoot(spec) ==
    Join((IF spec.lead = <<"/">> THEN <<>> ELSE <<cSrc>>) \o spec.segs) \o spec.ext

\* C21: a specifier that begins with "/" or with "src/" is resolved against
\* the project root: the resolved path is the location the specifier names
\* under the root, is relative and has no ".." segment; "/components/Home"
\* resolves to "components/Home".
C21_RootedStaysInProject ==
    pc = "rootedResolved" =>
        /\ output = UnderRoot(input)
        /\ ~StartsWith(output, <<"/">>)
        /\ \A i \in DOMAIN Split(output) : Split(output)[i] # <<".", ".">>

-----------------------------------------------------------------------------
(* Properties of the command line *)

\* C18: once a project path is given and extraction has run, the process ends
\* with a non-zero status whenever the errors of the result are not empty and
\* whenever extraction threw, and its status is never made non-zero when the
\* errors are empty; this in JSON mode and in pretty mode alike.
C18_ExitStatusFollowsErrors ==
    outcome # "pending" =>
        /\ pc = "exited" => (exitCode # 0 <=> (errors # <<>> \/ outcome = "threw"))
        /\ (errors = <<>> /\ outcome = "returned") => exitCode = 0

C18_Witness ==
    /\ pc = "exited"
    /\ options.json
    /\ outcome = "returned"
    /\ errors # <<>>
    /\ exitCode = ExitFailure

-----------------------------------------------------------------------------
(* Properties of the parse of one file *)

\* the identifiers a <Route> element names with component={X} or element={<X />}
ComponentRefs(attrs) ==
    {attrs[k].value : k \in {i \in DOMAIN attrs :
                                \/ attrs[i].name = "component" /\ attrs[i].kind = "identifier"
                                \/ attrs[i].name = "element" /\ attrs[i].kind = "jsx"}}

\* C14: every <Route> element of a parsed file yields exactly one record, whose
\* component is the project-relative path of the file and whose children are
\* empty; when the element names an identifier X that the file imports from the
\* specifier s, the record has importedComponent.name = X, importedComponent.path
\* = s and resolvedComponentPath = the resolution of s; when X is not imported,
\* or no identifier is named, both fields are absent.
C14_RouteElementRecord ==
    (pc = "parsed" /\ input.parses) =>
        /\ Len(output) >= Len(input.jsx)
        /\ input.calls = <<>> => Len(output) = Len(input.jsx)
        /\ \A i \in DOMAIN input.jsx :
              LET record == output[i]
                  refs == ComponentRefs(input.jsx[i])
                  bound == refs \cap DOMAIN input.imports
              IN /\ record.component = input.name
                 /\ record.children = <<>>
                 /\ Cardinality(refs) <= 1
                 /\ \A x \in bound :
                       /\ "importedComponent" \in DOMAIN record
                       /\ record.importedComponent.name = x
                       /\ record.importedComponent.path = input.imports[x]
                       /\ "resolvedComponentPath" \in DOMAIN record
                       /\ record.resolvedComponentPath =
                              resolveImportPath(input.imports[x],
                                                Absolute(projectPath, input.name),
                                                projectPath, fsys)
                 /\ bound = {} => /\ "importedComponent" \notin DOMAIN record
                                  /\ "resolvedComponentPath" \notin DOMAIN record

C14_Witness ==
    /\ pc = "parsed"
    /\ Len(input.jsx) = 2
    /\ ComponentRefs(input.jsx[1]) = {"Home"}
    /\ output[1].importedComponent.path = cHomeSpec
    /\ ComponentRefs(input.jsx[2]) = {"Profile"}
    /\ "importedComponent" \notin DOMAIN output[2]

\* the object-literal elements of an array literal, in order
ObjectsOf(elements) == SelectSeq(elements, LAMBDA e : e.kind = "object")

\* the last property of an object literal with the name and kind, as a set
LastProperty(object, name, kind) ==
    LET at == {i \in DOMAIN object.value :
                  object.value[i].name = name /\ object.value[i].kind = kind}
    IN {object.value[i].value : i \in {k \in at : \A j \in at : j <= k}}

\* records answer the object literals of an array literal one for one, in
\* order, each with the object's path literal ("/" without one) and with
\* children that answer the object's `children` array in the same way
RECURSIVE Answers(_, _)
Answers(records, elements) ==
    LET objects == ObjectsOf(elements) IN
    /\ Len(records) = Len(objects)
    /\ \A i \in DOMAIN objects :
          LET paths == LastProperty(objects[i], "path", "string")
              arrays == LastProperty(objects[i], "children", "array")
          IN /\ \A v \in paths : records[i].path = v
             /\ paths = {} => records[i].path = <<"/">>
             /\ \A a \in arrays : Answers(records[i].children, a)
             /\ arrays = {} => records[i].children = <<>>

\* C15: a createBrowserRouter call on an array literal yields one top-level
\* record per object-literal element, in element order; an object's children
\* property yields that record's children in the same way, to any depth;
\* elements that are no object literals are skipped without a record or an error.
C15_RouterArrayRecords ==
    (pc = "parsed" /\ input.parses /\ input.jsx = <<>> /\ Len(input.calls) = 1
     /\ input.calls[1].kind = "array") =>
        /\ Answers(output, input.calls[1].value)
        /\ errors = <<>>
        /\ logged = {}

\* [{ path: "/a", children: [{ path: "/a/b" }] }, x] with x no object literal
C15_Witness ==
    /\ pc = "parsed"
    /\ input.jsx = <<>>
    /\ Len(input.calls) = 1
    /\ input.calls[1].kind = "array"
    /\ Len(input.calls[1].value) = 2
    /\ input.calls[1].value[2] = OtherElement
    /\ Len(output) = 1
    /\ output[1].path = cA
    /\ Len(output[1].children) = 1
    /\ output[1].children[1].path = cAB
    /\ output[1].children[1].children = <<>>
====
